---- MODULE Spec2Model ----
(***************************************************************************)
(* Link integrity core of zola: components/utils/src/site.rs               *)
(* (get_reading_analytics, check_page_for_anchor, resolve_internal_link)   *)
(* and components/config/src/config/link_checker.rs (LinkChecker).         *)
(*                                                                         *)
(* A Rust string is modelled as a sequence of characters, each character a *)
(* one-character TLA+ string: "@/p" is <<"@", "/", "p">>.  Option<T> is a  *)
(* sequence of length 0 (None) or 1 (Some).                                *)
(***************************************************************************)
EXTENDS Integers, Sequences, FiniteSets, TLC

VARIABLES pc,          \* which operation is pending ("done" once it returned)
          link,        \* resolve_internal_link: the `link` argument
          permalinks,  \* resolve_internal_link: the `permalinks` table
          resolved,    \* resolve_internal_link: the returned Result
          url,         \* check_page_for_anchor: the `url` argument
          body,        \* check_page_for_anchor: the `body` argument
          checked,     \* check_page_for_anchor: how the call ended
          content,     \* get_reading_analytics: the text, by its word count
          analytics,   \* get_reading_analytics: the returned pair
          link_checker,\* the LinkChecker policy of the site configuration
          target,      \* the link the policy is asked about
          decision     \* what the policy decided for it

vars == <<pc, link, permalinks, resolved, url, body, checked,
          content, analytics, link_checker, target, decision>>

----------------------------------------------------------------------------
(* Bounds of the model.                                                    *)

\* a link is a concatenation of at most this many pieces of LinkPieces
MaxLinkPieces == 4
\* number of entries of the permalink table
MaxEntries == 1
\* length of the url handed to check_page_for_anchor
MaxUrlLen == 3
\* length of an attribute value of the page body
MaxValLen == 2
\* number of words of a text
MaxWords == 2000
\* length of each skip list of the policy
MaxPrefixes == 2
\* length of the url the policy is asked about
MaxTargetLen == 3

----------------------------------------------------------------------------
(* Strings.                                                                *)

Min(S) == CHOOSE x \in S : \A y \in S : x <= y

None == <<>>
Some(x) == <<x>>

\* all concatenations of at most n pieces drawn from P
RECURSIVE PieceStrings(_, _)
PieceStrings(P, n) ==
    IF n = 0 THEN {<<>>}
    ELSE LET prev == PieceStrings(P, n - 1)
         IN  prev \cup {s \o p : s \in prev, p \in P}

\* str::find(pat): 1-based position of the first occurrence of pat, 0 if none
find(s, pat) ==
    LET hits == {i \in 1..(Len(s) - Len(pat) + 1) :
                    SubSeq(s, i, i + Len(pat) - 1) = pat}
    IN  IF hits = {} THEN 0 ELSE Min(hits)

\* str::contains(pat)
contains(s, pat) == find(s, pat) # 0

\* str::starts_with(pat)
starts_with(s, pat) ==
    Len(pat) <= Len(s) /\ SubSeq(s, 1, Len(pat)) = pat

\* str::replacen(from, to, count): the first `count` matches, left to right
RECURSIVE replacen(_, _, _, _)
replacen(s, from, to, count) ==
    LET i == find(s, from)
    IN  IF count = 0 \/ i = 0 THEN s
        ELSE SubSeq(s, 1, i - 1) \o to
             \o replacen(SubSeq(s, i + Len(from), Len(s)), from, to, count - 1)

\* str::split(c).collect::<Vec<_>>(): every occurrence of c separates two
\* parts; a string without c is the single part
RECURSIVE split(_, _)
split(s, c) ==
    LET i == find(s, <<c>>)
    IN  IF i = 0 THEN <<s>>
        ELSE <<SubSeq(s, 1, i - 1)>> \o split(SubSeq(s, i + 1, Len(s)), c)

----------------------------------------------------------------------------
(* percent_encoding::percent_decode(..).decode_utf8_lossy()                *)

HexDigits == {"0", "1", "2", "3", "4", "5", "6", "7", "8", "9",
              "a", "b", "c", "d", "e", "f", "A", "B", "C", "D", "E", "F"}

HexVal(c) ==
    CASE c = "0" -> 0 [] c = "1" -> 1 [] c = "2" -> 2 [] c = "3" -> 3
      [] c = "4" -> 4 [] c = "5" -> 5 [] c = "6" -> 6 [] c = "7" -> 7
      [] c = "8" -> 8 [] c = "9" -> 9
      [] c \in {"a", "A"} -> 10 [] c \in {"b", "B"} -> 11
      [] c \in {"c", "C"} -> 12 [] c \in {"d", "D"} -> 13
      [] c \in {"e", "E"} -> 14 [] c \in {"f", "F"} -> 15

\* the ASCII codes of the characters of the model's alphabets
Ascii == [c \in {" ", "#", "%", "/", "0", "2", "@", "p"} |->
            CASE c = " " -> 32 [] c = "#" -> 35 [] c = "%" -> 37
              [] c = "/" -> 47 [] c = "0" -> 48 [] c = "2" -> 50
              [] c = "@" -> 64 [] c = "p" -> 112]

\* U+FFFD, what decode_utf8_lossy puts for a byte that is no valid UTF-8
ReplacementChar == "U+FFFD"

\* the character of one decoded byte.  The only escape the links of Links
\* can hold is %20, a byte of the table; a byte above 127 that is part of no
\* valid UTF-8 sequence decodes to U+FFFD.
CharOfByte(b) ==
    IF \E c \in DOMAIN Ascii : Ascii[c] = b
    THEN CHOOSE c \in DOMAIN Ascii : Ascii[c] = b
    ELSE ReplacementChar

\* `%` followed by two hex digits becomes the byte they spell; anything
\* else, a `%` without two hex digits included, is copied
RECURSIVE percent_decode(_)
percent_decode(s) ==
    IF s = <<>> THEN <<>>
    ELSE IF s[1] = "%" /\ Len(s) >= 3 /\ s[2] \in HexDigits /\ s[3] \in HexDigits
    THEN <<CharOfByte(16 * HexVal(s[2]) + HexVal(s[3]))>>
         \o percent_decode(SubSeq(s, 4, Len(s)))
    ELSE <<s[1]>> \o percent_decode(Tail(s))

----------------------------------------------------------------------------
(* resolve_internal_link                                                   *)

\* Ok(ResolvedInternalLink { permalink, md_path, anchor })
OkLink(permalink, md_path, anchor) ==
    [ok |-> TRUE, permalink |-> permalink, md_path |-> md_path,
     anchor |-> anchor, error |-> <<>>]

\* Err(format!("Relative link {} not found.", link))
LinkNotFound(l) ==
    [ok |-> FALSE, permalink |-> <<>>, md_path |-> <<>>,
     anchor |-> None, error |-> <<"Relative link not found", l>>]

\* resolve_internal_link with str::replace in place of replacen: every `@/`
\* is removed, not the first one only
resolve_internal_link_replace_all(l, table) ==
    LET clean_link == replacen(l, <<"@", "/">>, <<>>, Len(l))
        parts      == split(clean_link, "#")
        decoded    == percent_decode(parts[1])
    IN  IF decoded \notin DOMAIN table THEN LinkNotFound(l)
        ELSE IF Len(parts) > 1
        THEN OkLink(table[decoded] \o <<"#">> \o parts[2], decoded, Some(parts[2]))
        ELSE OkLink(table[decoded], decoded, None)

resolve_internal_link(l, table) ==
    LET clean_link == replacen(l, <<"@", "/">>, <<>>, 1)
        parts      == split(clean_link, "#")
        decoded    == percent_decode(parts[1])
    IN  IF decoded \notin DOMAIN table THEN LinkNotFound(l)
        ELSE IF Len(parts) > 1
        THEN OkLink(table[decoded] \o <<"#">> \o parts[2], decoded, Some(parts[2]))
        ELSE OkLink(table[decoded], decoded, None)

----------------------------------------------------------------------------
(* check_page_for_anchor                                                   *)

\* a character whose UTF-8 encoding takes two bytes
WideChar == "U+00E9"

\* the number of bytes of a character's UTF-8 encoding
ByteLen(c) == IF c = WideChar THEN 2 ELSE 1

\* the byte offset at which character k + 1 of s starts
RECURSIVE byte_offset(_, _)
byte_offset(s, k) == IF k = 0 THEN 0 ELSE byte_offset(s, k - 1) + ByteLen(s[k])

\* str::find(char): the byte index of the first occurrence
str_find(s, c) ==
    LET hits == {i \in 1..Len(s) : s[i] = c}
    IN  IF hits = {} THEN None ELSE Some(byte_offset(s, Min(hits) - 1))

\* str::get(b..): None when b is past the end or inside a character
str_get_from(s, b) ==
    LET at == {k \in 0..Len(s) : byte_offset(s, k) = b}
    IN  IF at = {} THEN None
        ELSE Some(SubSeq(s, (CHOOSE k \in at : TRUE) + 1, Len(s)))

\* the array `checks` as it was before the uppercase attribute names were
\* added (issue 948): the lowercase names only
checks_lowercase_only(anchor) ==
    << <<" ", "i", "d", "=">> \o anchor,
       <<" ", "i", "d", "=", "'">> \o anchor \o <<"'">>,
       <<" ", "i", "d", "=", "\"">> \o anchor \o <<"\"">>,
       <<" ", "n", "a", "m", "e", "=">> \o anchor,
       <<" ", "n", "a", "m", "e", "=", "'">> \o anchor \o <<"'">>,
       <<" ", "n", "a", "m", "e", "=", "\"">> \o anchor \o <<"\"">> >>

\* the array `checks`
checks(anchor) ==
    << <<" ", "i", "d", "=">> \o anchor,
       <<" ", "I", "D", "=">> \o anchor,
       <<" ", "i", "d", "=", "'">> \o anchor \o <<"'">>,
       <<" ", "I", "D", "=", "'">> \o anchor \o <<"'">>,
       <<" ", "i", "d", "=", "\"">> \o anchor \o <<"\"">>,
       <<" ", "I", "D", "=", "\"">> \o anchor \o <<"\"">>,
       <<" ", "n", "a", "m", "e", "=">> \o anchor,
       <<" ", "N", "A", "M", "E", "=">> \o anchor,
       <<" ", "n", "a", "m", "e", "=", "'">> \o anchor \o <<"'">>,
       <<" ", "N", "A", "M", "E", "=", "'">> \o anchor \o <<"'">>,
       <<" ", "n", "a", "m", "e", "=", "\"">> \o anchor \o <<"\"">>,
       <<" ", "N", "A", "M", "E", "=", "\"">> \o anchor \o <<"\"">> >>

\* Ok(())
AnchorOk == [kind |-> "Ok", anchor |-> <<>>]

\* Err(format!("Anchor `#{}` not found on page", anchor))
AnchorNotFound(anchor) == [kind |-> "Err", anchor |-> anchor]

\* the call did not return: Option::unwrap panicked on None
Panicked == [kind |-> "Panic", anchor |-> <<>>]

check_page_for_anchor(u, b) ==
    LET found == str_find(u, "#")
        index == IF found # None THEN found[1] ELSE 0
        got   == str_get_from(u, index + 1)
    IN  IF got = None THEN Panicked
        ELSE LET anchor == got[1]
                 cs     == checks(anchor)
             IN  IF \E i \in 1..Len(cs) : contains(b, cs[i])
                 THEN AnchorOk
                 ELSE AnchorNotFound(anchor)

----------------------------------------------------------------------------
(* get_reading_analytics                                                   *)

\* the assumed reading speed
WordsPerMinute == 200

\* get_reading_analytics with the ceiling taken as floor + 1
get_reading_analytics_plus_one(words) ==
    <<words, (words \div WordsPerMinute) + 1>>

\* A text is represented by the number of words unicode_words() yields for
\* it.  usize arithmetic: a text of n words holds at least n bytes, so
\* n + 199 stays below 2^64 and never wraps.
get_reading_analytics(words) ==
    LET word_count == words
    IN  <<word_count, (word_count + 199) \div WordsPerMinute>>

----------------------------------------------------------------------------
(* LinkChecker: the policy of the site configuration.                      *)

LinkCheckerLevel == {"ErrorLevel", "WarnLevel"}

\* impl Default for LinkCheckerLevel
LinkCheckerLevelDefault == "ErrorLevel"

\* LinkCheckerLevel::log_prefix
log_prefix(level) == IF level = "ErrorLevel" THEN "Error: " ELSE "Warning: "

\* impl Display for LinkCheckerLevel
level_to_string(level) == IF level = "ErrorLevel" THEN "error" ELSE "warn"

\* #[derive(Default)] struct LinkChecker
LinkCheckerDefault ==
    [skip_prefixes |-> <<>>, skip_anchor_prefixes |-> <<>>,
     internal_level |-> LinkCheckerLevelDefault,
     external_level |-> LinkCheckerLevelDefault]

\* some entry of the list is a prefix of u
any_prefix(list, u) == \E i \in 1..Len(list) : starts_with(u, list[i])

\* whether the link's existence is checked, and with which severity
should_check(u, policy, is_external) ==
    IF any_prefix(policy.skip_prefixes, u)
    THEN [kind |-> "Skip", level |-> "none"]
    ELSE [kind |-> "Check",
          level |-> IF is_external THEN policy.external_level
                                   ELSE policy.internal_level]

\* should_check_anchor reading skip_prefixes in place of skip_anchor_prefixes
should_check_anchor_other_list(u, policy) ==
    ~any_prefix(policy.skip_prefixes, u)

\* whether the link's anchor is checked
should_check_anchor(u, policy) ==
    ~any_prefix(policy.skip_anchor_prefixes, u)

----------------------------------------------------------------------------
(* Inputs and operations.                                                  *)

LinkPieces == {<<"@", "/">>, <<"p">>, <<"%", "2", "0">>, <<"#">>, <<"%">>}
Links == PieceStrings(LinkPieces, MaxLinkPieces)

\* content-relative paths of the table: plain ones, the site root, and file
\* names that hold a space, a `#`, a `%`, a literal `%20`, or `@/`
Keys == {<<>>, <<"p">>, <<" ">>, <<"p", "#">>, <<"%">>, <<"%", "2", "0">>,
         <<"@", "/", "p">>, <<"p", "@", "/">>}

Urls == {<<"u">>, <<"v">>}

\* the subsets of S of at most n elements
RECURSIVE SubsetsUpTo(_, _)
SubsetsUpTo(S, n) ==
    IF n = 0 THEN {{}}
    ELSE LET prev == SubsetsUpTo(S, n - 1)
         IN  prev \cup {K \cup {x} : K \in prev, x \in S}

Tables == UNION {[K -> Urls] : K \in SubsetsUpTo(Keys, MaxEntries)}

\* urls of check_page_for_anchor: with and without `#`, the empty one, and
\* ones that hold a two-byte character
AnchorUrls == PieceStrings({<<"#">>, <<"x">>, <<WideChar>>}, MaxUrlLen)

AttrNames == {<<"i", "d">>, <<"I", "D">>, <<"I", "d">>,
              <<"n", "a", "m", "e">>, <<"N", "A", "M", "E">>}
Quotes == {<<>>, <<"'">>, <<"\"">>}
AttrValues == PieceStrings({<<"#">>, <<"x">>, <<WideChar>>}, MaxValLen)

\* page bodies: one element with one attribute, with or without the space
\* before the attribute, in every quoting, well-formed or not
Bodies ==
    {<<"<", "h">> \o sp \o a \o <<"=">> \o q1 \o v \o q2 \o <<">">> :
        sp \in {<<>>, <<" ">>}, a \in AttrNames, q1 \in Quotes,
        v \in AttrValues, q2 \in Quotes}

\* sequences over S of length at most n
RECURSIVE SeqsUpTo(_, _)
SeqsUpTo(S, n) ==
    IF n = 0 THEN {<<>>}
    ELSE LET prev == SeqsUpTo(S, n - 1)
         IN  prev \cup {Append(q, x) : q \in prev, x \in S}

SkipLists == SeqsUpTo({<<"h">>, <<"h", "x">>}, MaxPrefixes)

Policies ==
    [skip_prefixes : SkipLists, skip_anchor_prefixes : SkipLists,
     internal_level : LinkCheckerLevel, external_level : LinkCheckerLevel]

Targets ==
    [url : PieceStrings({<<"h">>, <<"x">>}, MaxTargetLen),
     is_external : BOOLEAN]

NoResult == [ok |-> FALSE, permalink |-> <<>>, md_path |-> <<>>,
             anchor |-> None, error |-> <<"pending">>]
NotChecked == [kind |-> "pending", anchor |-> <<>>]
NoTarget == [url |-> <<>>, is_external |-> FALSE]
NoDecision ==
    [existence |-> [kind |-> "pending", level |-> "none"], anchor |-> FALSE]

ResolverIdle == link = <<>> /\ permalinks = <<>> /\ resolved = NoResult
ValidatorIdle == url = <<>> /\ body = <<>> /\ checked = NotChecked
EstimatorIdle == content = 0 /\ analytics = <<0, 0>>
PolicyIdle ==
    link_checker = LinkCheckerDefault /\ target = NoTarget /\ decision = NoDecision

resolverVars == <<link, permalinks, resolved>>
validatorVars == <<url, body, checked>>
estimatorVars == <<content, analytics>>
policyVars == <<link_checker, target, decision>>

InitResolve ==
    /\ pc = "resolve"
    /\ link \in Links
    /\ permalinks \in Tables
    /\ resolved = NoResult
    /\ ValidatorIdle /\ EstimatorIdle /\ PolicyIdle

InitAnchor ==
    /\ pc = "check_anchor"
    /\ url \in AnchorUrls
    /\ body \in Bodies
    /\ checked = NotChecked
    /\ ResolverIdle /\ EstimatorIdle /\ PolicyIdle

InitReading ==
    /\ pc = "analytics"
    /\ content \in 0..MaxWords
    /\ analytics = <<0, 0>>
    /\ ResolverIdle /\ ValidatorIdle /\ PolicyIdle

InitPolicy ==
    /\ pc = "check_link"
    /\ link_checker \in Policies
    /\ target \in Targets
    /\ decision = NoDecision
    /\ ResolverIdle /\ ValidatorIdle /\ EstimatorIdle

ResolveInternalLink ==
    /\ pc = "resolve"
    /\ resolved' = resolve_internal_link(link, permalinks)
    /\ pc' = "done"
    /\ UNCHANGED <<link, permalinks, validatorVars, estimatorVars, policyVars>>

CheckPageForAnchor ==
    /\ pc = "check_anchor"
    /\ checked' = check_page_for_anchor(url, body)
    /\ pc' = "done"
    /\ UNCHANGED <<url, body, resolverVars, estimatorVars, policyVars>>

GetReadingAnalytics ==
    /\ pc = "analytics"
    /\ analytics' = get_reading_analytics(content)
    /\ pc' = "done"
    /\ UNCHANGED <<content, resolverVars, validatorVars, policyVars>>

\* the caller asks the policy about one link
CheckLink ==
    /\ pc = "check_link"
    /\ decision' =
          [existence |-> should_check(target.url, link_checker, target.is_external),
           anchor    |-> should_check_anchor(target.url, link_checker)]
    /\ pc' = "done"
    /\ UNCHANGED <<link_checker, target, resolverVars, validatorVars, estimatorVars>>

NextResolve == ResolveInternalLink
NextAnchor == CheckPageForAnchor
NextReading == GetReadingAnalytics
NextPolicy == CheckLink

SpecResolve == InitResolve /\ [][NextResolve]_vars
SpecAnchor == InitAnchor /\ [][NextAnchor]_vars
SpecReading == InitReading /\ [][NextReading]_vars
SpecPolicy == InitPolicy /\ [][NextPolicy]_vars

Init == InitResolve \/ InitAnchor \/ InitReading \/ InitPolicy

Next ==
    \/ ResolveInternalLink
    \/ CheckPageForAnchor
    \/ GetReadingAnalytics
    \/ CheckLink

Spec == Init /\ [][Next]_vars

----------------------------------------------------------------------------
(* Vocabulary of the claims about resolve_internal_link: the link syntax   *)
(* `@/path#fragment` as the specification words it.                        *)

AtSlash == <<"@", "/">>

HasHash(s) == \E i \in 1..Len(s) : s[i] = "#"

\* s holds a percent escape: `%` followed by two hex digits
HasEscape(s) ==
    \E i \in 1..(Len(s) - 2) :
        s[i] = "%" /\ s[i + 1] \in HexDigits /\ s[i + 2] \in HexDigits

\* a path that holds neither `#` nor a percent escape
PlainPath(p) == ~HasHash(p) /\ ~HasEscape(p)

\* the link without a single leading `@/`
StripLeadingMarker(l) ==
    IF Len(l) >= 2 /\ l[1] = "@" /\ l[2] = "/" THEN SubSeq(l, 3, Len(l)) ELSE l

FirstHash(s) == Min({i \in 1..Len(s) : s[i] = "#"})

\* the part before the first `#` (all of s when it holds none)
BeforeFirstHash(s) == IF HasHash(s) THEN SubSeq(s, 1, FirstHash(s) - 1) ELSE s

\* the part after the first `#`
AfterFirstHash(s) == SubSeq(s, FirstHash(s) + 1, Len(s))

\* the path part of a link, still encoded, and decoded
RawPathPart(l) == BeforeFirstHash(StripLeadingMarker(l))
PathPart(l) == percent_decode(RawPathPart(l))

----------------------------------------------------------------------------
(* Claims about resolve_internal_link (SpecResolve).                       *)

\* C1 as stated: for every (path, url) of the table, resolving "@/" + path
\* succeeds with permalink = url, md_path = path and anchor = None.
C1_Original ==
    pc = "done" =>
        \A p \in DOMAIN permalinks :
            link = AtSlash \o p => resolved = OkLink(permalinks[p], p, None)

\* C1, amended: for every (path, url) of the table whose path holds no `#`
\* and no percent escape, resolving "@/" + path succeeds with
\* permalink = url, md_path = path and anchor = None.
C1_PlainPathResolves ==
    pc = "done" =>
        \A p \in DOMAIN permalinks :
            (PlainPath(p) /\ link = AtSlash \o p)
                => resolved = OkLink(permalinks[p], p, None)

C1_Witness ==
    /\ pc = "done"
    /\ \E p \in DOMAIN permalinks :
          p # <<>> /\ PlainPath(p) /\ link = AtSlash \o p /\ resolved.ok

\* C2: for every (path, url) of the table and any fragment f, everything
\* after the first `#`, resolving "@/" + path + "#" + f returns
\* permalink = url + "#" + f and anchor = Some(f).  Stated for the paths
\* without `#` or escape, those for which "@/" + path resolves to its entry.
C2_FragmentEchoed ==
    pc = "done" =>
        \A p \in DOMAIN permalinks :
            (PlainPath(p) /\ starts_with(link, AtSlash \o p \o <<"#">>)) =>
                LET f == SubSeq(link, Len(p) + 4, Len(link))
                IN  /\ resolved.ok
                    /\ resolved.permalink = permalinks[p] \o <<"#">> \o f
                    /\ resolved.anchor = Some(f)

\* C5: resolution fails with the link-not-found error whenever the decoded
\* path part of the link (the link without its leading `@/` and without its
\* fragment) is no key of the table, and succeeds whenever it is a key.
C5_FoundIffKey ==
    pc = "done" =>
        IF PathPart(link) \in DOMAIN permalinks
        THEN resolved.ok
        ELSE resolved = LinkNotFound(link)

\* C6: a link whose path part holds a percent escape resolves to the entry
\* keyed by the decoded path: md_path is the decoded key, the permalink is
\* that entry's url, and the fragment (everything after the first `#`) is
\* appended and returned as written, undecoded.
C6_EscapedPathResolves ==
    (pc = "done" /\ HasEscape(RawPathPart(link))
                 /\ PathPart(link) \in DOMAIN permalinks) =>
        LET l   == StripLeadingMarker(link)
            found == permalinks[PathPart(link)]
        IN  resolved =
                IF HasHash(l)
                THEN OkLink(found \o <<"#">> \o AfterFirstHash(l), PathPart(link),
                            Some(AfterFirstHash(l)))
                ELSE OkLink(found, PathPart(link), None)

\* C9: the `@/` marker is stripped only at the very front of the link and
\* only once: a link that does not start with `@/` is looked up by its
\* decoded path unchanged, also when `@/` occurs later in it, and a link
\* that starts with `@/` loses those two characters and no others.
C9_MarkerStrippedAtFrontOnly ==
    pc = "done" =>
        /\ resolved.ok => resolved.md_path = PathPart(link)
        /\ ~starts_with(link, AtSlash) =>
              (resolved.ok <=>
                  percent_decode(BeforeFirstHash(link)) \in DOMAIN permalinks)

----------------------------------------------------------------------------
(* Claims about check_page_for_anchor (SpecAnchor).                        *)

\* c occurs in s as a literal substring
IsSubstring(c, s) ==
    \E off \in 0..(Len(s) - Len(c)) : \A k \in 1..Len(c) : s[off + k] = c[k]

\* the twelve candidates ` <attr>=<q><anchor><q>`: attr one of id, ID, name,
\* NAME and q a double quote, a single quote or nothing
Candidates(anchor) ==
    {<<" ">> \o attr \o <<"=">> \o q \o anchor \o q :
        attr \in {<<"i", "d">>, <<"I", "D">>,
                  <<"n", "a", "m", "e">>, <<"N", "A", "M", "E">>},
        q \in {<<"\"">>, <<"'">>, <<>>}}

\* what the check of body for anchor is to return
Expected(anchor, b) ==
    IF \E c \in Candidates(anchor) : IsSubstring(c, b)
    THEN AnchorOk
    ELSE AnchorNotFound(anchor)

\* C3: for a url that holds `#`, the check succeeds if and only if the body
\* holds one of the twelve candidates built from the part of the url after
\* its first `#`, and otherwise fails with the anchor-not-found error.
C3_AnchorFoundIffCandidate ==
    (pc = "done" /\ HasHash(url)) => checked = Expected(AfterFirstHash(url), body)

C3_Witness ==
    /\ pc = "done"
    /\ HasHash(url)
    /\ AfterFirstHash(url) # <<>>
    /\ checked = AnchorOk

\* C4: for a url without `#`, the whole url is the anchor name: the check
\* succeeds exactly when the body holds one of the twelve candidates built
\* from the whole url.  Stated for the calls that return (C10 is about the
\* ones that do not).
C4_BareAnchorIsWholeUrl ==
    (pc = "done" /\ ~HasHash(url) /\ checked.kind # "Panic")
        => checked = Expected(url, body)

\* C10: every call, for any url and any body, returns success or the
\* anchor-not-found failure; it never panics.
C10_NeverPanics ==
    pc = "done" => checked.kind \in {"Ok", "Err"}

----------------------------------------------------------------------------
(* Claims about get_reading_analytics (SpecReading).                       *)

\* C7: the reading time of n words is ceil(n / 200): the least number of
\* minutes m with 200 * m >= n; 0 words give 0 minutes, 1..200 words give 1
\* minute, and 200 * k words give exactly k minutes.
C7_ReadingTimeIsCeiling ==
    pc = "done" =>
        LET n == content
            m == analytics[2]
        IN  /\ analytics[1] = n
            /\ m >= 0 /\ 200 * m >= n /\ 200 * (m - 1) < n
            /\ n = 0 => m = 0
            /\ n \in 1..200 => m = 1
            /\ \A k \in 0..(n \div 200) : n = 200 * k => m = k

C7_Witness ==
    pc = "done" /\ content = 2000 /\ analytics = <<2000, 10>>

----------------------------------------------------------------------------
(* Claims about the link checker policy (SpecPolicy).                      *)

\* p is a prefix of u
IsPrefix(p, u) == \E rest \in 0..Len(u) : Len(u) = Len(p) + rest /\ SubSeq(u, 1, Len(p)) = p

\* some entry of the skip list is a prefix of u
Exempted(list, u) == \E p \in {list[i] : i \in 1..Len(list)} : IsPrefix(p, u)

\* C8: a url that starts with an entry of skip_prefixes is never checked for
\* existence; one that starts with an entry of skip_anchor_prefixes and with
\* no entry of skip_prefixes is checked for existence but not for its
\* anchor; each exemption depends on its own list only.
C8_SkipListsIndependent ==
    pc = "done" =>
        LET skipped  == Exempted(link_checker.skip_prefixes, target.url)
            noAnchor == Exempted(link_checker.skip_anchor_prefixes, target.url)
        IN  /\ skipped => decision.existence.kind = "Skip"
            /\ (noAnchor /\ ~skipped) =>
                  (decision.existence.kind = "Check" /\ ~decision.anchor)
            /\ (decision.existence.kind = "Skip") <=> skipped
            /\ decision.anchor <=> ~noAnchor

C8_Witness ==
    /\ pc = "done"
    /\ link_checker.skip_prefixes # <<>>
    /\ Exempted(link_checker.skip_anchor_prefixes, target.url)
    /\ ~Exempted(link_checker.skip_prefixes, target.url)
    /\ decision.existence.kind = "Check"
    /\ ~decision.anchor

====
